---- MODULE Spec2Model ----
(***************************************************************************)
(* A model of resolve (src/resolve/app.py): the command line tool that     *)
(* rewrites, in text files, the dotted-quad address of every line ending   *)
(* in "<comment> resolve: <host>" to the address the host resolves to.     *)
(*                                                                         *)
(* Text is a sequence of one-character strings; a file is its content, a   *)
(* sequence of characters with the line terminators in it.                 *)
(***************************************************************************)
EXTENDS Integers, Sequences, FiniteSets, TLC

(***************************************************************************)
(* Characters and the two regular expressions of main()                    *)
(***************************************************************************)
Digits == {"0", "1", "2", "3", "4", "5", "6", "7", "8", "9"}

\* \s of the re module, over the characters the model uses
Whitespace == {" ", "\t", "\n", "\r"}

LF == "\n"

CR == "\r"

IsDigit(s, i) == i >= 1 /\ i <= Len(s) /\ s[i] \in Digits

\* the literal "resolve:" of trigger_re
ResolveLit == <<"r", "e", "s", "o", "l", "v", "e", ":">>

\* \d{1,3} at i: how many digits the greedy group takes (0: no digit at i)
Group(s, i) ==
    IF ~IsDigit(s, i) THEN 0
    ELSE IF ~IsDigit(s, i + 1) THEN 1
    ELSE IF ~IsDigit(s, i + 2) THEN 2
    ELSE 3

\* \d{1,3}\. at i: the index after the dot, or 0. A shorter group never helps:
\* the character after it is then a digit, not the dot.
GroupDot(s, i) ==
    LET n == Group(s, i)
    IN  IF n > 0 /\ i + n <= Len(s) /\ s[i + n] = "." THEN i + n + 1 ELSE 0

\* the pattern with \d for its last group
MatchEndOneDigit(s, i) ==
    LET a == GroupDot(s, i)
        b == IF a = 0 THEN 0 ELSE GroupDot(s, a)
        c == IF b = 0 THEN 0 ELSE GroupDot(s, b)
    IN  IF c = 0 \/ ~IsDigit(s, c) THEN 0 ELSE c

\* replace_re matched at i: the index of the match's last character, or 0
MatchEnd(s, i) ==
    LET a == GroupDot(s, i)
        b == IF a = 0 THEN 0 ELSE GroupDot(s, a)
        c == IF b = 0 THEN 0 ELSE GroupDot(s, b)
        n == IF c = 0 THEN 0 ELSE Group(s, c)
    IN  IF n = 0 THEN 0 ELSE c + n - 1

RECURSIVE FindAllFrom(_, _)
\* replace_re.findall(line): the non-overlapping matches, scanning left to right
FindAllFrom(s, i) ==
    IF i > Len(s) THEN << >>
    ELSE LET e == MatchEnd(s, i)
         IN  IF e > 0 THEN <<SubSeq(s, i, e)>> \o FindAllFrom(s, e + 1)
             ELSE FindAllFrom(s, i + 1)

FindAll(s) == FindAllFrom(s, 1)

RECURSIVE SubFrom(_, _, _)
\* replace_re.sub(repl, line): every match replaced by repl
SubFrom(repl, s, i) ==
    IF i > Len(s) THEN << >>
    ELSE LET e == MatchEnd(s, i)
         IN  IF e > 0 THEN repl \o SubFrom(repl, s, e + 1)
             ELSE <<s[i]>> \o SubFrom(repl, s, i + 1)

Sub(repl, s) == SubFrom(repl, s, 1)

StartsWith(s, i, lit) ==
    /\ i >= 1
    /\ i + Len(lit) - 1 <= Len(s)
    /\ \A k \in 1..Len(lit) : s[i + k - 1] = lit[k]

RECURSIVE SkipSpace(_, _)
\* \s* at i: the index of the first character that is not whitespace
SkipSpace(s, i) ==
    IF i <= Len(s) /\ s[i] \in Whitespace THEN SkipSpace(s, i + 1) ELSE i

RECURSIVE SkipNonSpace(_, _)
\* \S+ at i: the index after the run of characters that are not whitespace
SkipNonSpace(s, i) ==
    IF i <= Len(s) /\ s[i] \notin Whitespace THEN SkipNonSpace(s, i + 1) ELSE i

\* the pattern without its $
NoDollar(s, i) == TRUE

\* $ at i: the end of the string, or just before a final newline
AtDollar(s, i) == i = Len(s) + 1 \/ (i = Len(s) /\ s[i] = LF)

\* trigger_re matched at i: group(1), the host, or << >> (no match at i)
TriggerAt(s, c, i) ==
    IF ~StartsWith(s, i, c) THEN << >>
    ELSE LET a == SkipSpace(s, i + Len(c))
         IN  IF ~StartsWith(s, a, ResolveLit) THEN << >>
             ELSE LET b == SkipSpace(s, a + Len(ResolveLit))
                      e == SkipNonSpace(s, b)
                  IN  IF e > b /\ AtDollar(s, e) THEN SubSeq(s, b, e - 1)
                      ELSE << >>

\* trigger_re.search(line).start(): where the leftmost match starts, or 0
TriggerStart(s, c) ==
    LET hits == {i \in 1..(Len(s) + 1) : TriggerAt(s, c, i) # << >>}
    IN  IF hits = {} THEN 0
        ELSE CHOOSE i \in hits : \A j \in hits : i <= j

\* trigger_re.search(line): the host of the leftmost match, << >> for None
TriggerSearch(s, c) ==
    IF TriggerStart(s, c) = 0 THEN << >>
    ELSE TriggerAt(s, c, TriggerStart(s, c))

(***************************************************************************)
(* Text-mode file input and output (path.open(), os.fdopen(out_no, 'w'))   *)
(***************************************************************************)
RECURSIVE LineEnd(_, _)
\* the index of the last character of the line that starts at i: the line
\* ends with "\n", "\r\n" or "\r" (universal newlines), or with the content
LineEnd(s, i) ==
    IF i >= Len(s) THEN Len(s)
    ELSE IF s[i] = LF THEN i
    ELSE IF s[i] = CR THEN (IF s[i + 1] = LF THEN i + 1 ELSE i)
    ELSE LineEnd(s, i + 1)

RECURSIVE RawLinesFrom(_, _)
RawLinesFrom(s, i) ==
    IF i > Len(s) THEN << >>
    ELSE LET e == LineEnd(s, i)
         IN  <<SubSeq(s, i, e)>> \o RawLinesFrom(s, e + 1)

\* the lines of a file as they stand in it, each with its own terminator
RawLines(s) == RawLinesFrom(s, 1)

\* a line as the text-mode reader hands it over: "\r\n" and "\r" become "\n"
Translate(raw) ==
    LET n == Len(raw)
    IN  IF n >= 2 /\ raw[n - 1] = CR /\ raw[n] = LF
            THEN SubSeq(raw, 1, n - 2) \o <<LF>>
        ELSE IF n >= 1 /\ raw[n] = CR THEN SubSeq(raw, 1, n - 1) \o <<LF>>
        ELSE raw

\* for line in input
ReadLines(s) == [k \in 1..Len(RawLines(s)) |-> Translate(RawLines(s)[k])]

(***************************************************************************)
(* Name resolution: gethostbyname(host) returns a dotted quad or raises    *)
(***************************************************************************)
NXDOMAIN == <<"!">>

\* dns is the answer of the name service for the names it knows; every
\* other name is unknown
Gethostbyname(d, host) == IF host \in DOMAIN d THEN d[host] ELSE NXDOMAIN

(***************************************************************************)
(* One iteration of the loop over the lines of a file                      *)
(***************************************************************************)
\* the line written, with what the iteration found and logged
ProcessLine(line, c, d) ==
    LET host == TriggerSearch(line, c)
        ips == FindAll(line)
        ip == Gethostbyname(d, host)
    IN  IF host = << >>
            THEN [out |-> line, event |-> "none", count |-> 0,
                  host |-> << >>, ip |-> << >>]
        ELSE IF Len(ips) # 1
            THEN [out |-> line, event |-> "warning", count |-> Len(ips),
                  host |-> << >>, ip |-> << >>]
        ELSE IF ip = NXDOMAIN
            THEN [out |-> line, event |-> "exception", count |-> 1,
                  host |-> host, ip |-> << >>]
        ELSE [out |-> Sub(ip, line), event |-> "debug", count |-> 1,
              host |-> host, ip |-> ip]

RECURSIVE RewriteFrom(_, _, _, _)
RewriteFrom(ls, c, d, k) ==
    IF k > Len(ls) THEN << >>
    ELSE ProcessLine(ls[k], c, d).out \o RewriteFrom(ls, c, d, k + 1)

\* the content that replaces a file's: every line of it, processed in order
RewriteContent(s, c, d) == RewriteFrom(ReadLines(s), c, d, 1)

(***************************************************************************)
(* State                                                                   *)
(***************************************************************************)
VARIABLES
    comment,    \* args.comment
    dns,        \* the name service: host -> answer
    content,    \* the content of the file a single-file run rewrites
    runs,       \* how many runs of the tool have completed on it
    recs,       \* each run's iterations: raw line, line read, outcome
    results,    \* the content of the file after each completed run
    files,      \* the regular files on disk: path -> content
    links,      \* dangling symbolic links: listed, but exists() is false
    inputs,     \* args.input
    recursive,  \* args.recursive
    backup,     \* args.backup
    idx,        \* main's loop: the index of the input being resolved
    stack,      \* the directory calls of _resolve in progress
    call,       \* the path of the _resolve call about to run, or NoPath
    ret,        \* what the last _resolve call returned, or "none"
    done,       \* main has returned
    status,     \* the exit status of the process, once main has returned
    startFiles, \* the files as the run found them
    preEdit,    \* each processed file's content when the run first opened it
    processed   \* the files the run has rewritten

rewriteVars == <<content, runs, recs, results>>

walkVars == <<files, links, inputs, recursive, backup, idx, stack, call, ret,
              done, status, startFiles, preEdit, processed>>

vars == <<comment, dns, rewriteVars, walkVars>>

(***************************************************************************)
(* Texts the runs are tried on                                             *)
(***************************************************************************)
Addr10 == <<"1", "0", ".", "0", ".", "0", ".", "1">>

Addr9 == <<"9", ".", "9", ".", "9", ".", "9">>

Addr93 == <<"9", "3", ".", "1", "8", "4", ".", "2", "1", "6", ".", "3", "4">>

HostH == <<"h">>

HostA1 == <<"a", "1", ".", "2", ".", "3", ".", "4">>

HostA9 == <<"a", "9", ".", "9", ".", "9", ".", "9">>

DirHash == <<"#", " ", "r", "e", "s", "o", "l", "v", "e", ":", " ">>

DirTight == <<"#", "r", "e", "s", "o", "l", "v", "e", ":">>

DirSlash == <<"/", "/", " ", "r", "e", "s", "o", "l", "v", "e", ":", " ">>

TwoAddrs == <<"1", ".", "2", ".", "3", ".", "4", " ", "5", ".", "6", ".", "7", ".", "8">>

LongTail == <<"1", ".", "2", ".", "3", ".", "4", "5", "6", "7">>

LongHead == <<"1", "2", "3", "4", ".", "5", ".", "6", ".", "7">>

Server == <<"s", " ", "1", "0", ".", "0", ".", "0", ".", "1">>

Plain == <<"x", LF>>

Stale == Addr10 \o <<" ">> \o DirHash \o HostH \o <<LF>>

Space == <<" ">>

\* what stands before the directive on a line
Fronts == {<< >>, Server \o Space, LongHead \o Space, LongTail \o Space,
           TwoAddrs \o Space}

Directives == {<< >>, DirHash, DirTight, DirSlash}

Hosts == {HostH, HostA1}

\* what follows the host on a line
Tails == {<< >>, Space \o Addr10}

Terminators == {<<LF>>, <<CR, LF>>, <<CR>>, << >>}

Lines ==
    {f \o d \o h \o t \o e :
        f \in Fronts, d \in Directives, h \in Hosts, t \in Tails,
        e \in Terminators}

\* the number of plain lines around the line in a file
MaxExtra == 1

RECURSIVE Repeat(_, _)
Repeat(s, n) == IF n = 0 THEN << >> ELSE s \o Repeat(s, n - 1)

Contents ==
    {Repeat(Plain, jk[1]) \o l \o Repeat(Plain, jk[2]) :
        jk \in {x \in (0..MaxExtra) \X (0..MaxExtra) : x[1] + x[2] <= MaxExtra},
        l \in Lines}

Comments == {<<"#">>, <<"/", "/">>}

HostPool == {HostH, HostA1, HostA9}

Answers == {Addr9, Addr93, NXDOMAIN}

\* the name services tried: what each name of the pool resolves to
Resolvers ==
    {f \in [HostPool -> Answers] : f[HostA1] # Addr93 /\ f[HostA9] # Addr9}

\* how many times the tool is run on the file
MaxRuns == 2

(***************************************************************************)
(* A run on a single file: _resolve's file branch, without backup          *)
(***************************************************************************)
NoPath == [at |-> << >>, name |-> "", bk |-> 0]

WalkIdle ==
    /\ files = << >>
    /\ links = {}
    /\ inputs = << >>
    /\ recursive = FALSE
    /\ backup = FALSE
    /\ idx = 1
    /\ stack = << >>
    /\ call = NoPath
    /\ ret = "none"
    /\ done = FALSE
    /\ status = 0
    /\ startFiles = << >>
    /\ preEdit = << >>
    /\ processed = {}

InitRewrite ==
    /\ comment \in Comments
    /\ dns \in Resolvers
    /\ content \in Contents
    /\ runs = 0
    /\ recs = << >>
    /\ results = << >>
    /\ WalkIdle

\* the iterations of the loop over the file's lines
Iterations(s, c, d) ==
    [k \in 1..Len(RawLines(s)) |->
        [raw |-> RawLines(s)[k],
         line |-> ReadLines(s)[k],
         line_no |-> k,
         r |-> ProcessLine(ReadLines(s)[k], c, d)]]

RewriteFile ==
    /\ runs < MaxRuns
    /\ recs' = Append(recs, Iterations(content, comment, dns))
    /\ content' = RewriteContent(content, comment, dns)
    /\ results' = Append(results, content')
    /\ runs' = runs + 1
    /\ UNCHANGED <<comment, dns, walkVars>>

NextRewrite == RewriteFile

SpecRewrite == InitRewrite /\ [][NextRewrite]_vars

(***************************************************************************)
(* The file system a traversal runs on                                     *)
(***************************************************************************)
\* a path: the directories above it, its base name, and how many times
\* BACKUP_EXT is appended to it
Path(at, name, bk) == [at |-> at, name |-> name, bk |-> bk]

\* path.with_name(path.name + BACKUP_EXT)
WithBackupExt(p) == [p EXCEPT !.bk = @ + 1]

FileA == Path(<< >>, "a", 0)

FileX == Path(<<"d">>, "x", 0)

FileY == Path(<<"d", "e">>, "y", 0)

LinkL == Path(<<"d", "e">>, "l", 0)

DirD == Path(<< >>, "d", 0)

DirE == Path(<<"d">>, "e", 0)

Gone == Path(<< >>, "gone", 0)

Dirs == {DirD, DirE}

\* the paths a command line names
TopPaths == {FileA, WithBackupExt(FileA), DirD, Gone}

\* the longest command line
MaxInputs == 2

Exists(p) == p \in DOMAIN files \/ p \in Dirs

IsDir(p) == p \in Dirs

\* what path.iterdir() lists: the entries of the directory, links included
Children(p) ==
    {q \in DOMAIN files \cup Dirs \cup links : q.at = p.at \o <<p.name>>}

\* the orders a directory listing can come in
Orders(S) ==
    {o \in [1..Cardinality(S) -> S] :
        \A i, j \in 1..Cardinality(S) : o[i] = o[j] => i = j}

\* the files a run can find
StartFiles ==
    {[p \in {FileA, FileX, FileY} \cup B |->
        IF p = FileA THEN a ELSE IF p \in {FileX, FileY} THEN Stale ELSE Plain] :
        a \in {Stale, Plain},
        B \in SUBSET {WithBackupExt(FileA), WithBackupExt(FileX)}}

Init ==
    /\ comment = <<"#">>
    /\ dns = [h \in HostPool |-> Addr9]
    /\ content = << >>
    /\ runs = 0
    /\ recs = << >>
    /\ results = << >>
    /\ files \in StartFiles
    /\ links \in SUBSET {LinkL}
    /\ inputs \in UNION {[1..n -> TopPaths] : n \in 1..MaxInputs}
    /\ recursive \in BOOLEAN
    /\ backup \in BOOLEAN
    /\ idx = 1
    /\ stack = << >>
    /\ call = NoPath
    /\ ret = "none"
    /\ done = FALSE
    /\ status = 0
    /\ startFiles = files
    /\ preEdit = << >>
    /\ processed = {}

(***************************************************************************)
(* main's loop over the inputs                                             *)
(***************************************************************************)
AtMain == ~done /\ stack = << >> /\ call = NoPath

\* for path in args.input: ... _resolve(path, ...)
MainCall ==
    /\ AtMain
    /\ ret = "none"
    /\ idx <= Len(inputs)
    /\ call' = inputs[idx]
    /\ UNCHANGED <<comment, dns, rewriteVars, files, links, inputs, recursive,
                   backup, idx, stack, ret, done, status, startFiles, preEdit,
                   processed>>

\* _resolve returned True: the next input
MainContinue ==
    /\ AtMain
    /\ ret = "true"
    /\ idx' = idx + 1
    /\ ret' = "none"
    /\ UNCHANGED <<comment, dns, rewriteVars, files, links, inputs, recursive,
                   backup, stack, call, done, status, startFiles, preEdit,
                   processed>>

\* main without its break
MainBreakGoesOn ==
    /\ AtMain
    /\ ret = "false"
    /\ idx' = idx + 1
    /\ ret' = "none"
    /\ UNCHANGED <<comment, dns, rewriteVars, files, links, inputs, recursive,
                   backup, stack, call, done, status, startFiles, preEdit,
                   processed>>

\* _resolve returned False: break, main returns, the process exits with
\* the status of a script that ran to its end
MainBreak ==
    /\ AtMain
    /\ ret = "false"
    /\ done' = TRUE
    /\ status' = 0
    /\ UNCHANGED <<comment, dns, rewriteVars, files, links, inputs, recursive,
                   backup, idx, stack, call, ret, startFiles, preEdit,
                   processed>>

\* the loop is over: main returns, the process exits
MainExit ==
    /\ AtMain
    /\ ret = "none"
    /\ idx > Len(inputs)
    /\ done' = TRUE
    /\ status' = 0
    /\ UNCHANGED <<comment, dns, rewriteVars, files, links, inputs, recursive,
                   backup, idx, stack, call, ret, startFiles, preEdit,
                   processed>>

(***************************************************************************)
(* _resolve(path, recursive, backup, trigger_re, replace_re)               *)
(***************************************************************************)
\* if not path.exists(): return False
ResolveMissing ==
    /\ call # NoPath
    /\ ~Exists(call)
    /\ ret' = "false"
    /\ call' = NoPath
    /\ UNCHANGED <<comment, dns, rewriteVars, files, links, inputs, recursive,
                   backup, idx, stack, done, status, startFiles, preEdit,
                   processed>>

\* if path.is_dir(): if not recursive: return False
ResolveNotRecursive ==
    /\ call # NoPath
    /\ IsDir(call)
    /\ ~recursive
    /\ ret' = "false"
    /\ call' = NoPath
    /\ UNCHANGED <<comment, dns, rewriteVars, files, links, inputs, recursive,
                   backup, idx, stack, done, status, startFiles, preEdit,
                   processed>>

\* for child in path.iterdir(): the listing is read, in the order it comes
ResolveDirectory ==
    /\ call # NoPath
    /\ IsDir(call)
    /\ recursive
    /\ \E o \in Orders(Children(call)) :
            stack' = Append(stack, [path |-> call, todo |-> o])
    /\ call' = NoPath
    /\ ret' = "none"
    /\ UNCHANGED <<comment, dns, rewriteVars, files, links, inputs, recursive,
                   backup, idx, done, status, startFiles, preEdit, processed>>

Top == stack[Len(stack)]

Pop == SubSeq(stack, 1, Len(stack) - 1)

\* the loop over the children without its test of what the call returned
DirNextWhateverReturned ==
    /\ stack # << >>
    /\ call = NoPath
    /\ Top.todo # << >>
    /\ call' = Head(Top.todo)
    /\ stack' = Append(Pop, [Top EXCEPT !.todo = Tail(@)])
    /\ ret' = "none"
    /\ UNCHANGED <<comment, dns, rewriteVars, files, links, inputs, recursive,
                   backup, idx, done, status, startFiles, preEdit, processed>>

\* the loop over the children calls _resolve on the next child
DirNext ==
    /\ stack # << >>
    /\ call = NoPath
    /\ ret # "false"
    /\ Top.todo # << >>
    /\ call' = Head(Top.todo)
    /\ stack' = Append(Pop, [Top EXCEPT !.todo = Tail(@)])
    /\ ret' = "none"
    /\ UNCHANGED <<comment, dns, rewriteVars, files, links, inputs, recursive,
                   backup, idx, done, status, startFiles, preEdit, processed>>

\* if not _resolve(child, ...): return False
DirFail ==
    /\ stack # << >>
    /\ call = NoPath
    /\ ret = "false"
    /\ stack' = Pop
    /\ UNCHANGED <<comment, dns, rewriteVars, files, links, inputs, recursive,
                   backup, idx, call, ret, done, status, startFiles, preEdit,
                   processed>>

\* every child returned True: return True
DirDone ==
    /\ stack # << >>
    /\ call = NoPath
    /\ ret # "false"
    /\ Top.todo = << >>
    /\ stack' = Pop
    /\ ret' = "true"
    /\ UNCHANGED <<comment, dns, rewriteVars, files, links, inputs, recursive,
                   backup, idx, call, done, status, startFiles, preEdit,
                   processed>>

\* copy(str(path), str(path.with_name(path.name + BACKUP_EXT)))
Copy(fs, src, dst) ==
    [p \in DOMAIN fs \cup {dst} |-> IF p = dst THEN fs[src] ELSE fs[p]]

\* the file branch: the backup, the rewrite into a temporary file, and
\* os.replace of the file by it
ResolveFile ==
    /\ call # NoPath
    /\ call \in DOMAIN files
    /\ LET kept == IF backup THEN Copy(files, call, WithBackupExt(call))
                   ELSE files
       IN  files' = [kept EXCEPT
                        ![call] = RewriteContent(kept[call], comment, dns)]
    /\ preEdit' = IF call \in DOMAIN preEdit THEN preEdit
                  ELSE [p \in DOMAIN preEdit \cup {call} |->
                            IF p = call THEN files[call] ELSE preEdit[p]]
    /\ processed' = processed \cup {call}
    /\ ret' = "true"
    /\ call' = NoPath
    /\ UNCHANGED <<comment, dns, rewriteVars, links, inputs, recursive,
                   backup, idx, stack, done, status, startFiles>>

Next ==
    \/ MainCall
    \/ MainContinue
    \/ MainBreak
    \/ MainExit
    \/ ResolveMissing
    \/ ResolveNotRecursive
    \/ ResolveDirectory
    \/ DirNext
    \/ DirFail
    \/ DirDone
    \/ ResolveFile

Spec == Init /\ [][Next]_vars

(***************************************************************************)
(* Claims about a run over files and directories (Spec)                    *)
(***************************************************************************)
\* the paths whose content is not what the run found: changed, or created
Modified ==
    {p \in DOMAIN files : p \notin DOMAIN startFiles \/ files[p] # startFiles[p]}

\* the files the run found whose content is no longer what it was
Changed == {p \in DOMAIN startFiles : files[p] # startFiles[p]}

\* the run was given a directory and no --recursive
DirectoryGiven ==
    ~recursive /\ \E j \in 1..Len(inputs) : IsDir(inputs[j])

\* the place of the first directory on the command line
FirstDir ==
    CHOOSE j \in 1..Len(inputs) :
        IsDir(inputs[j]) /\ \A i \in 1..(j - 1) : ~IsDir(inputs[i])

\* C6, as claimed: with backups enabled, after a run the backup <name>.bk of
\* every processed file holds that file's content as it was before the run
\* edited it, for every set and order of inputs.
C6_BackupIsPreEdit ==
    (done /\ backup /\ \A i, j \in 1..Len(inputs) : inputs[i] = inputs[j] => i = j) =>
        \A p \in processed :
            /\ WithBackupExt(p) \in DOMAIN files
            /\ files[WithBackupExt(p)] = preEdit[p]

\* C7, as claimed: a run given a directory without --recursive fails and has
\* modified no file, whatever other inputs precede or follow the directory.
C7_NothingModified ==
    (done /\ DirectoryGiven) => (ret = "false" /\ Changed = {})

\* C7, amended: a run given a directory without --recursive fails at the
\* first such input at the latest: no later input is ever reached, the only
\* files modified are inputs that precede the directory (and their
\* backups), and main ends on a failed call.
C7_OnlyEarlierInputsModified ==
    DirectoryGiven =>
        /\ idx <= FirstDir
        /\ Modified \subseteq
                UNION {{inputs[i], WithBackupExt(inputs[i])} :
                            i \in 1..(FirstDir - 1)}
        /\ \A p \in processed :
                \E k \in 1..(FirstDir - 1) : p = inputs[k]
        /\ done => ret = "false"

\* C7's case: the run ended at the directory, after it rewrote an input that
\* precedes it
C7_Witness ==
    /\ done
    /\ DirectoryGiven
    /\ FirstDir = 2
    /\ idx = 2
    /\ ret = "false"
    /\ Changed # {}

\* C8: once a _resolve call has returned False, no file is rewritten any
\* more: no further call starts (the remaining siblings and the remaining
\* inputs are not processed), the calls in progress only return, each with
\* False, and the files rewritten before stay as they are.
C8_FailureStopsTheRun ==
    [][ret = "false" =>
            /\ files' = files
            /\ processed' = processed
            /\ call' = NoPath
            /\ ret' = "false"
            /\ idx' = idx
            /\ stack' \in {stack, Pop}]_vars

\* C8's case: a call two directories deep has failed with siblings left in
\* both directories and an input left on the command line, after a file
\* was rewritten
C8_Witness ==
    /\ ret = "false"
    /\ Len(stack) = 2
    /\ stack[1].todo # << >>
    /\ stack[2].todo # << >>
    /\ idx < Len(inputs)
    /\ Changed # {}

\* C9, as claimed: the exit status is not 0 when the run hit a missing input
\* or a directory without --recursive, and 0 when the loop completed.
C9_ExitStatusTellsFailure ==
    done => IF ret = "false" THEN status # 0 ELSE status = 0

(***************************************************************************)
(* Claims about the rewrite of a file's lines (SpecRewrite)                *)
(***************************************************************************)
\* the places of the iterations of all the runs so far: run, line number
Its == UNION {{<<r, k>> : k \in 1..Len(recs[r])} : r \in 1..Len(recs)}

\* where the leftmost dotted quad of s starts (0: s has none)
FirstMatch(s) ==
    LET hits == {j \in 1..Len(s) : MatchEnd(s, j) > 0}
    IN  IF hits = {} THEN 0 ELSE CHOOSE j \in hits : \A i \in hits : j <= i

\* s with the dotted quad that starts at j replaced by ip, nothing else
Replaced(s, j, ip) ==
    SubSeq(s, 1, j - 1) \o ip \o SubSeq(s, MatchEnd(s, j) + 1, Len(s))

\* the line matches the trigger, holds one dotted quad, and its host resolves
Resolvable(line) ==
    /\ TriggerSearch(line, comment) # << >>
    /\ Len(FindAll(line)) = 1
    /\ Gethostbyname(dns, TriggerSearch(line, comment)) # NXDOMAIN

\* C1, as claimed: a line that matches the trigger and holds exactly one
\* dotted quad is written, when its host resolves, as the input line with
\* that dotted quad replaced by the resolver's answer, every other character
\* of it, the line terminator included, unchanged.
C1_OnlyTheAddressChanges ==
    \A rk \in Its :
        LET it == recs[rk[1]][rk[2]]
        IN  Resolvable(it.line) =>
                it.r.out = Replaced(it.raw, FirstMatch(it.raw),
                        Gethostbyname(dns, TriggerSearch(it.line, comment)))

\* C2, as claimed: the rewritten file has the lines of the original, in
\* their order, and every line that does not match the trigger is in it
\* unchanged.
C2_OtherLinesUnchanged ==
    \A r \in 1..Len(recs) :
        LET after == RawLines(results[r])
        IN  /\ Len(after) = Len(recs[r])
            /\ \A k \in 1..Len(recs[r]) :
                    TriggerSearch(recs[r][k].line, comment) = << >> =>
                        after[k] = recs[r][k].raw

\* C4, as claimed: a line that matches the trigger and holds no dotted quad,
\* or more than one, is written as it was read from the file, with a
\* warning that carries the count, and without substitution.
C4_AmbiguousLineUnchanged ==
    \A rk \in Its :
        LET it == recs[rk[1]][rk[2]]
        IN  (/\ TriggerSearch(it.line, comment) # << >>
             /\ Len(FindAll(it.line)) # 1) =>
                /\ it.r.out = it.raw
                /\ it.r.event = "warning"
                /\ it.r.count = Len(FindAll(it.line))

\* C5, as claimed: when the host of a matched line does not resolve, the
\* line is written unchanged and the failure is logged, and the next run
\* leaves the same line in the file.
C5_UnresolvedLineUnchanged ==
    \A rk \in Its :
        LET it == recs[rk[1]][rk[2]]
        IN  (/\ TriggerSearch(it.line, comment) # << >>
             /\ Len(FindAll(it.line)) = 1
             /\ Gethostbyname(dns, TriggerSearch(it.line, comment)) = NXDOMAIN)
            =>  /\ it.r.out = it.raw
                /\ it.r.event = "exception"
                /\ rk[1] < Len(recs) => recs[rk[1] + 1][rk[2]].r.out = it.raw

\* "<comment> resolve: <hostname>" at i, whatever follows the hostname: the
\* index after the hostname, or 0
DirectiveEnd(s, c, i) ==
    IF ~StartsWith(s, i, c) THEN 0
    ELSE LET a == SkipSpace(s, i + Len(c))
         IN  IF ~StartsWith(s, a, ResolveLit) THEN 0
             ELSE LET b == SkipSpace(s, a + Len(ResolveLit))
                      e == SkipNonSpace(s, b)
                  IN  IF e > b THEN e ELSE 0

\* the hostname of the directive at i
DirectiveHost(s, c, i) ==
    SubSeq(s, SkipSpace(s, SkipSpace(s, i + Len(c)) + Len(ResolveLit)),
           DirectiveEnd(s, c, i) - 1)

\* a directive is at i and the line's only dotted quad follows its hostname,
\* after whitespace, and ends the line
AddressFollows(s, c, i) ==
    LET e == DirectiveEnd(s, c, i)
        j == SkipSpace(s, e)
    IN  /\ e > 0
        /\ j > e
        /\ MatchEnd(s, j) > 0
        /\ AtDollar(s, MatchEnd(s, j) + 1)
        /\ Len(FindAll(s)) = 1
        /\ FirstMatch(s) = j

\* C3, as claimed: a line in which the directive is followed, later on the
\* line, by a single address (# resolve: example.test 10.0.0.1) is written
\* with the address replaced by the address the hostname resolves to.
C3_AddressAfterDirective ==
    \A rk \in Its :
        LET it == recs[rk[1]][rk[2]]
        IN  \A i \in 1..Len(it.line) :
                LET ip == Gethostbyname(dns, DirectiveHost(it.line, comment, i))
                IN  (AddressFollows(it.line, comment, i) /\ ip # NXDOMAIN) =>
                        it.r.out = Replaced(it.line, FirstMatch(it.line), ip)

\* the line's only dotted quad stands before the directive that ends it
AddressPrecedes(s, c) ==
    /\ TriggerStart(s, c) > 0
    /\ Len(FindAll(s)) = 1
    /\ MatchEnd(s, FirstMatch(s)) < TriggerStart(s, c)

\* C3, amended: a line in which a single address stands before the
\* directive, which ends the line (10.0.0.1 # resolve: example.test), is
\* written, when the hostname resolves, as the line read with the address
\* replaced by the address the hostname resolves to, the trigger text
\* untouched; a line in which the address follows the hostname and ends the
\* line (# resolve: example.test 10.0.0.1), the hostname not itself ending
\* in "resolve:", does not match the trigger and is written as read.
C3_AddressBeforeDirective ==
    \A rk \in Its :
        LET it == recs[rk[1]][rk[2]]
            s == it.line
            t == TriggerStart(s, comment)
            ip == Gethostbyname(dns, TriggerSearch(s, comment))
        IN  /\ (AddressPrecedes(s, comment) /\ ip # NXDOMAIN) =>
                    /\ it.r.out = Replaced(s, FirstMatch(s), ip)
                    /\ SubSeq(it.r.out, Len(it.r.out) - (Len(s) - t),
                              Len(it.r.out)) = SubSeq(s, t, Len(s))
            /\ \A i \in 1..Len(s) :
                    (/\ AddressFollows(s, comment, i)
                     /\ ~StartsWith(s, DirectiveEnd(s, comment, i)
                                        - Len(ResolveLit), ResolveLit)) =>
                        (it.r.out = s /\ it.r.event = "none")

\* C3's case: a run rewrote a line whose address stands before the
\* directive, to another address
C3_Witness ==
    \E rk \in Its :
        LET it == recs[rk[1]][rk[2]]
        IN  /\ AddressPrecedes(it.line, comment)
            /\ it.r.event = "debug"
            /\ it.r.out # it.line

\* C10, as claimed: with a resolver that is a fixed function, a second run
\* leaves the file as the first run left it, for every file content.
C10_Idempotent ==
    \A n \in 2..Len(results) : results[n] = results[1]

\* the comment string holds no digit and no dot
CommentPlain == \A i \in 1..Len(comment) : comment[i] \notin Digits \cup {"."}

\* the dotted quad the iteration replaced lies outside the host and has no
\* digit next to it
ApartFromHost(it) ==
    LET s == it.line
        j == FirstMatch(s)
        e == MatchEnd(s, j)
        n == IF s[Len(s)] = LF THEN Len(s) - 1 ELSE Len(s)
    IN  /\ ~IsDigit(s, j - 1)
        /\ ~IsDigit(s, e + 1)
        /\ e <= n - Len(it.r.host)

\* C10, amended: with a resolver that is a fixed function from hostnames to
\* dotted quads, and a comment string without digit or dot, a second run
\* leaves the file as the first run left it, for every file in which each
\* dotted quad the first run replaces lies outside the hostname token and
\* has no digit right before or right after it.
C10_IdempotentApartFromHost ==
    (/\ recs # << >>
     /\ CommentPlain
     /\ \A k \in 1..Len(recs[1]) :
            recs[1][k].r.event = "debug" => ApartFromHost(recs[1][k]))
    => \A n \in 2..Len(results) : results[n] = results[1]

\* C10's case: the first run replaced an address, apart from the host, by
\* another, and a second run has completed
C10_Witness ==
    /\ Len(results) >= 2
    /\ CommentPlain
    /\ \A k \in 1..Len(recs[1]) :
            recs[1][k].r.event = "debug" => ApartFromHost(recs[1][k])
    /\ \E k \in 1..Len(recs[1]) :
            /\ recs[1][k].r.event = "debug"
            /\ recs[1][k].r.out # recs[1][k].line

(***************************************************************************)
(* What holds of the lines as the text-mode reader hands them over: the    *)
(* statements of C1, C2, C4 and C5 with the line read in place of the line *)
(* of the file. They differ from the claims in the line terminator only.   *)
(***************************************************************************)
ReadLineOnlyTheAddressChanges ==
    \A rk \in Its :
        LET it == recs[rk[1]][rk[2]]
        IN  Resolvable(it.line) =>
                it.r.out = Replaced(it.line, FirstMatch(it.line),
                        Gethostbyname(dns, TriggerSearch(it.line, comment)))

ReadLinesOtherwiseUnchanged ==
    \A r \in 1..Len(recs) :
        LET after == RawLines(results[r])
        IN  /\ Len(after) = Len(recs[r])
            /\ \A k \in 1..Len(recs[r]) :
                    TriggerSearch(recs[r][k].line, comment) = << >> =>
                        after[k] = recs[r][k].line

ReadLineAmbiguousUnchanged ==
    \A rk \in Its :
        LET it == recs[rk[1]][rk[2]]
        IN  (/\ TriggerSearch(it.line, comment) # << >>
             /\ Len(FindAll(it.line)) # 1) =>
                /\ it.r.out = it.line
                /\ it.r.event = "warning"
                /\ it.r.count = Len(FindAll(it.line))

ReadLineUnresolvedUnchanged ==
    \A rk \in Its :
        LET it == recs[rk[1]][rk[2]]
        IN  (/\ TriggerSearch(it.line, comment) # << >>
             /\ Len(FindAll(it.line)) = 1
             /\ Gethostbyname(dns, TriggerSearch(it.line, comment)) = NXDOMAIN)
            =>  /\ it.r.out = it.line
                /\ it.r.event = "exception"
                /\ rk[1] < Len(recs) => recs[rk[1] + 1][rk[2]].r.out = it.line

====
